---- MODULE Spec2Model ----
(***************************************************************************)
(* Model of simple_org_chart/hierarchy.py: build_org_hierarchy and         *)
(* collect_missing_manager_records, over an explicit heap of Python        *)
(* objects.  Employee dicts, their shallow copies and the 'children' list  *)
(* objects are heap cells, so that aliasing between the input records and  *)
(* the copies made by emp.copy() is part of the model.                     *)
(***************************************************************************)
EXTENDS Integers, Sequences, FiniteSets, TLC

\* ------------------------------------------------------------------ bounds
MaxEmp == 3      \* longest employee list
MaxCalls == 3    \* build_org_hierarchy calls on one list object
MaxSort == 4     \* longest employee list whose report is sorted
MaxDup == 4      \* longest employee list with repeated records

\* ----------------------------------------------------------------- strings
\* A string is [n, up, ws]: n names its letters (0: no letters), up says it
\* has upper-case letters, ws says it has leading/trailing whitespace.
\* None is the value with n = -1.
Str(k) == [n |-> k, up |-> FALSE, ws |-> FALSE]
Upper(k) == [n |-> k, up |-> TRUE, ws |-> FALSE]
Padded(k) == [n |-> k, up |-> FALSE, ws |-> TRUE]
EmptyStr == Str(0)
NoneVal == Str(-1)
\* an id or address that no employee of the list has
Ghost == Str(9)
\* the 'id' of a record that has no 'id' key: emp['id'] raises KeyError
Absent == Str(-2)

\* str.strip()
Strip(s) == [s EXCEPT !.ws = FALSE]
\* str.lower()
Lower(s) == [s EXCEPT !.up = FALSE]
\* truthiness of an Optional[str]
Truthy(s) == s # NoneVal /\ s # EmptyStr
\* (x or '')
OrEmpty(s) == IF Truthy(s) THEN s ELSE EmptyStr
\* (x or None)
OrNone(s) == IF Truthy(s) THEN s ELSE NoneVal

\* titles; the lower-cased title and the keywords of line 111 it contains
TitleLower(t) ==
  CASE t = "CEO" -> "ceo"
    [] t = "Head of Sales" -> "head of sales"
    [] t = "Engineer" -> "engineer"
    [] OTHER -> ""
ceo_keywords == <<"chief executive", "ceo", "president", "chair", "director", "head">>
KeywordIn(kw, tl) ==
  \/ kw = "ceo" /\ tl = "ceo"
  \/ kw = "head" /\ tl = "head of sales"
\* HasCeoKeyword looking for the keywords in the title as it is stored
HasCeoKeyword_CaseSensitive(title) ==
  \E k \in 1..Len(ceo_keywords) : KeywordIn(ceo_keywords[k], title)

\* any(keyword in title_lower for keyword in ceo_keywords), title_lower =
\* (candidate.get('title') or '').lower()
HasCeoKeyword(title) ==
  \E k \in 1..Len(ceo_keywords) : KeywordIn(ceo_keywords[k], TitleLower(title))

\* -------------------------------------------------------------------- state
VARIABLES
  employees,   \* the flat list handed to the functions: a sequence of records
  settings,    \* the settings dict: topLevelUserEmail, topLevelUserId
  lists,       \* heap of list objects: lists[r] is the content of list r
  dicts,       \* heap of employee copies made by emp.copy()
  root,        \* the dict build_org_hierarchy returned last (0: None)
  override,    \* top_user_email_override of the last call (NoneVal: not passed)
  branch,      \* the root-selection branch the last call took
  candidates,  \* root_candidates of the last call
  raised,      \* the last call raised (RecursionError, KeyError)
  calls,       \* number of build_org_hierarchy calls made on the list
  budget,      \* number of calls the caller makes on the list
  missing,     \* the list collect_missing_manager_records returned last
  collected,   \* collect_missing_manager_records ran after the last build
  prev,        \* [lists, dicts, root, override] as the previous call left them
  \* data_update.py: the refresh and its status
  status,      \* the stored update status (data_update_status.json)
  startup,     \* _APP_STARTUP_COMPLETE
  now,         \* the clock, in hours
  thr,         \* the threads of the process: position and locals of each
  files,       \* who wrote DATA_FILE and MISSING_MANAGER_FILE last
  \* scheduler.py: the worker processes sharing the data directory
  flock,       \* the process holding the flock on .scheduler.lock (0: free)
  proc,        \* per process: _scheduler_running, its threads, restart position
  \* the traversal of collect_missing_manager_records, step by step
  stack,       \* the active traverse() calls: [node, next child]
  marks,       \* the visited set
  trace        \* the ids in the order they were added to visited

hvars == <<employees, settings, lists, dicts, root, override, branch, candidates,
           raised, calls, budget, missing, collected, prev>>
uvars == <<status, startup, now, thr, files>>
svars == <<flock, proc>>
tvars == <<stack, marks, trace>>
vars == <<employees, settings, lists, dicts, root, override, branch, candidates,
          raised, calls, budget, missing, collected, prev,
          status, startup, now, thr, files, flock, proc, stack, marks, trace>>

\* A status is the dict stored in data_update_status.json.  A time is a
\* number of hours; NoTime stands for a key that is absent (or None), BadTime
\* for a startedAt that datetime.fromisoformat rejects; "absent" for an
\* absent text or flag.
NoTime == -1
BadTime == -2
St(state, source, startedAt, success, finishedAt, error, lastSuccessAt) ==
  [state |-> state, source |-> source, startedAt |-> startedAt,
   success |-> success, finishedAt |-> finishedAt, error |-> error,
   lastSuccessAt |-> lastSuccessAt]
\* _CURRENT_DATA_UPDATE_STATUS = {'state': 'idle'} (line 51), no file yet
NoStatus == St("idle", "absent", NoTime, "absent", NoTime, "absent", NoTime)

\* no refresh, scheduler or traversal is part of the scenario
NoRefresh ==
  /\ status = NoStatus /\ startup = TRUE /\ now = 0 /\ thr = <<>> /\ files = <<>>
NoScheduler == flock = 0 /\ proc = <<>>
NoTraversal == stack = <<>> /\ marks = {} /\ trace = <<>>

\* ------------------------------------------------------- Python equality
\* dict == dict and list == list as CPython evaluates them: identical
\* objects are equal without looking inside; otherwise the scalar keys are
\* compared, then the 'children' lists element by element.  A comparison
\* that needs its own result never returns (RecursionError): "E".
RECURSIVE DictEq(_, _, _, _, _, _)
RECURSIVE ListEqFrom(_, _, _, _, _, _, _)
ListEqFrom(emps, L, D, sa, sb, i, path) ==
  IF i > Len(sa) THEN "T"
  ELSE LET r == DictEq(emps, L, D, sa[i], sb[i], path)
       IN IF r = "T" THEN ListEqFrom(emps, L, D, sa, sb, i + 1, path) ELSE r

ListEq(emps, L, D, la, lb, path) ==
  IF la = lb THEN "T"
  ELSE IF Len(L[la]) # Len(L[lb]) THEN "F"
  ELSE ListEqFrom(emps, L, D, L[la], L[lb], 1, path)

DictEq(emps, L, D, a, b, path) ==
  IF a = b THEN "T"
  ELSE IF <<a, b>> \in path THEN "E"
  ELSE IF \/ D[a].id # D[b].id
          \/ D[a].managerId # D[b].managerId
          \/ [emps[D[a].src] EXCEPT !.managerId = NoneVal, !.children = 0]
               # [emps[D[b].src] EXCEPT !.managerId = NoneVal, !.children = 0]
       THEN "F"
  ELSE ListEq(emps, L, D, D[a].children, D[b].children, path \cup {<<a, b>>})

\* x in seq  (emp_copy not in manager['children'] is its negation)
RECURSIVE Contains(_, _, _, _, _, _)
Contains(emps, L, D, seq, x, i) ==
  IF i > Len(seq) THEN "F"
  ELSE LET r == DictEq(emps, L, D, seq[i], x, {})
       IN IF r = "F" THEN Contains(emps, L, D, seq, x, i + 1) ELSE r

\* ------------------------------------------------------ build_org_hierarchy
\* emp_dict = {emp['id']: emp.copy() for emp in employees}: the copy of the
\* record at position i is dict base + i; a later record with the same id
\* replaces the earlier one, the key keeps its first position.
LastPos(emps, id) ==
  CHOOSE i \in 1..Len(emps) :
    emps[i].id = id /\ \A j \in 1..Len(emps) : emps[j].id = id => j <= i
InDict(emps, id) == \E i \in 1..Len(emps) : emps[i].id = id
Ref(emps, base, id) == base + LastPos(emps, id)
\* positions whose copy is a value of emp_dict, in key order
KeyPos(emps) ==
  SelectSeq([i \in 1..Len(emps) |-> i],
            LAMBDA i : \A j \in 1..(i - 1) : emps[j].id # emps[i].id)
\* if 'children' not in emp_dict[emp_id]: emp_dict[emp_id]['children'] = []
\* (0 stands for a record without the key); the new lists follow L0
NeedsList(emps, i) == emps[i].children = 0 /\ LastPos(emps, emps[i].id) = i
NewListRank(emps, i) == Cardinality({j \in 1..i : NeedsList(emps, j)})
CopyDicts(emps, nL) ==
  [i \in 1..Len(emps) |->
     [id |-> emps[i].id, managerId |-> emps[i].managerId, src |-> i,
      children |-> IF NeedsList(emps, i) THEN nL + NewListRank(emps, i)
                   ELSE emps[i].children]]
CopyLists(emps) ==
  [k \in 1..Cardinality({j \in 1..Len(emps) : NeedsList(emps, j)}) |-> <<>>]

\* emp['managerId'] and emp['managerId'] in emp_dict
\* Resolvable refusing an employee that names itself as manager
Resolvable_NotSelf(emps, i) ==
  /\ Truthy(emps[i].managerId) /\ InDict(emps, emps[i].managerId)
  /\ emps[i].managerId # emps[i].id
Resolvable(emps, i) == Truthy(emps[i].managerId) /\ InDict(emps, emps[i].managerId)

\* AppendChild without the guard 'if emp_copy not in manager[children]'
AppendChild_NoGuard(emps, base, h, i) ==
  LET c == Ref(emps, base, emps[i].id)
      m == Ref(emps, base, emps[i].managerId)
      lm == h.D[m].children
  IN [h EXCEPT !.L[lm] = Append(@, c)]

\* lines 84-87 and 101-104: append emp_copy to manager['children'] unless
\* an equal dict is already there
AppendChild(emps, base, h, i) ==
  LET c == Ref(emps, base, emps[i].id)
      m == Ref(emps, base, emps[i].managerId)
      lm == h.D[m].children
      r == Contains(emps, h.L, h.D, h.L[lm], c, 1)
  IN IF r = "E" THEN [h EXCEPT !.err = TRUE]
     ELSE IF r = "T" THEN h
     ELSE [h EXCEPT !.L[lm] = Append(@, c)]

\* lines 33-41
TopUserEmail(sett, ov) ==
  LET settings_top_user_email == Strip(OrEmpty(sett.topLevelUserEmail))
      chosen_top_user == IF ov # NoneVal THEN Strip(OrEmpty(ov))
                         ELSE settings_top_user_email
  IN OrNone(Strip(OrEmpty(chosen_top_user)))
SettingsTopUserId(sett) == Strip(OrEmpty(sett.topLevelUserId))

\* lines 58-64: position of the first employee whose email is top_user_email
EmailMatches(emps, e) == {i \in 1..Len(emps) : emps[i].email = e}
FirstIn(S) == CHOOSE i \in S : \A j \in S : i <= j

\* ConfiguredRoot with an unmatched override falling back to the configured
\* topLevelUserEmail
ConfiguredRoot_EmailFallback(emps, sett, ov) ==
  LET top_user_email == TopUserEmail(sett, ov)
      byOv == IF Truthy(top_user_email) THEN EmailMatches(emps, top_user_email) ELSE {}
      byEmail == IF byOv # {} THEN byOv
                 ELSE EmailMatches(emps, OrNone(Strip(OrEmpty(sett.topLevelUserEmail))))
      sid == SettingsTopUserId(sett)
  IN IF byEmail # {} THEN [pos |-> LastPos(emps, emps[FirstIn(byEmail)].id), branch |-> "email"]
     ELSE IF Truthy(sid) /\ InDict(emps, sid)
          THEN [pos |-> LastPos(emps, sid), branch |-> "id"]
     ELSE [pos |-> 0, branch |-> "none"]

\* ConfiguredRoot trying the configured id before the email
ConfiguredRoot_IdFirst(emps, sett, ov) ==
  LET top_user_email == TopUserEmail(sett, ov)
      byEmail == IF Truthy(top_user_email) THEN EmailMatches(emps, top_user_email) ELSE {}
      sid == SettingsTopUserId(sett)
  IN IF Truthy(sid) /\ InDict(emps, sid)
     THEN [pos |-> LastPos(emps, sid), branch |-> "id"]
     ELSE IF byEmail # {}
          THEN [pos |-> LastPos(emps, emps[FirstIn(byEmail)].id), branch |-> "email"]
     ELSE [pos |-> 0, branch |-> "none"]

\* lines 57-71: position of the configured root and the branch (0: none)
ConfiguredRoot(emps, sett, ov) ==
  LET top_user_email == TopUserEmail(sett, ov)
      byEmail == IF Truthy(top_user_email) THEN EmailMatches(emps, top_user_email) ELSE {}
      sid == SettingsTopUserId(sett)
  IN IF byEmail # {} THEN [pos |-> LastPos(emps, emps[FirstIn(byEmail)].id), branch |-> "email"]
     ELSE IF Truthy(sid) /\ InDict(emps, sid)
          THEN [pos |-> LastPos(emps, sid), branch |-> "id"]
     ELSE [pos |-> 0, branch |-> "none"]

\* lines 79-87: the loop over employees when a root is configured
RECURSIVE ConfiguredLoop(_, _, _, _, _)
ConfiguredLoop(emps, base, rootRef, h, i) ==
  IF i > Len(emps) \/ h.err THEN h
  ELSE LET c == Ref(emps, base, emps[i].id)
           h2 == IF h.D[c].id = h.D[rootRef].id THEN h
                 ELSE IF Resolvable(emps, i) THEN AppendChild(emps, base, h, i)
                 ELSE h
       IN ConfiguredLoop(emps, base, rootRef, h2, i + 1)

\* lines 90-91: every dict of emp_dict gets a new children list without the
\* root; the lists the dicts had before are left as they are
RECURSIVE RemoveRoot(_, _, _, _, _)
RemoveRoot(emps, base, rootRef, h, k) ==
  LET keys == KeyPos(emps)
  IN IF k > Len(keys) \/ h.err THEN h
     ELSE LET d == Ref(emps, base, emps[keys[k]].id)
              kept == SelectSeq(h.L[h.D[d].children],
                                LAMBDA ch : h.D[ch].id # h.D[rootRef].id)
              h2 == [h EXCEPT !.L = Append(@, kept),
                              !.D[d].children = Len(h.L) + 1]
          IN RemoveRoot(emps, base, rootRef, h2, k + 1)

\* lines 73-93
BuildConfigured(emps, base, h, pos) ==
  LET rootRef == base + pos
      h1 == [h EXCEPT !.D[rootRef].managerId = NoneVal]
      h2 == ConfiguredLoop(emps, base, rootRef, h1, 1)
      h3 == RemoveRoot(emps, base, rootRef, h2, 1)
  IN [L |-> h3.L, D |-> h3.D, err |-> h3.err,
      root |-> IF h3.err THEN 0 ELSE rootRef]

\* AutoLoop taking every employee without a resolvable manager as candidate
RECURSIVE AutoLoop_AnyUnresolved(_, _, _, _)
AutoLoop_AnyUnresolved(emps, base, h, i) ==
  IF i > Len(emps) \/ h.err THEN h
  ELSE LET c == Ref(emps, base, emps[i].id)
           h2 == IF Resolvable(emps, i) THEN AppendChild(emps, base, h, i)
                 ELSE [h EXCEPT !.cands = Append(@, c)]
       IN AutoLoop_AnyUnresolved(emps, base, h2, i + 1)

\* lines 99-107: the loop of the auto-detect branch; cands is root_candidates
RECURSIVE AutoLoop(_, _, _, _)
AutoLoop(emps, base, h, i) ==
  IF i > Len(emps) \/ h.err THEN h
  ELSE LET c == Ref(emps, base, emps[i].id)
           h2 == IF Resolvable(emps, i) THEN AppendChild(emps, base, h, i)
                 ELSE IF ~Truthy(emps[i].managerId)
                      THEN LET r == Contains(emps, h.L, h.D, h.cands, c, 1)
                           IN IF r = "E" THEN [h EXCEPT !.err = TRUE]
                              ELSE IF r = "T" THEN h
                              ELSE [h EXCEPT !.cands = Append(@, c)]
                 ELSE h
       IN AutoLoop(emps, base, h2, i + 1)

\* MostReports keeping the last dict with the greatest number of children
RECURSIVE MostReports_LastMax(_, _, _, _, _, _)
MostReports_LastMax(emps, base, h, k, max_reports, best) ==
  LET keys == KeyPos(emps)
  IN IF k > Len(keys) THEN best
     ELSE LET d == Ref(emps, base, emps[keys[k]].id)
              cnt == Len(h.L[h.D[d].children])
          IN IF cnt >= max_reports /\ cnt > 0
             THEN MostReports_LastMax(emps, base, h, k + 1, cnt, d)
             ELSE MostReports_LastMax(emps, base, h, k + 1, max_reports, best)

\* lines 129-133: the first dict, in emp_dict order, with more children than
\* every dict before it has and than 0
RECURSIVE MostReports(_, _, _, _, _, _)
MostReports(emps, base, h, k, max_reports, best) ==
  LET keys == KeyPos(emps)
  IN IF k > Len(keys) THEN best
     ELSE LET d == Ref(emps, base, emps[keys[k]].id)
              cnt == Len(h.L[h.D[d].children])
          IN IF cnt > max_reports
             THEN MostReports(emps, base, h, k + 1, cnt, d)
             ELSE MostReports(emps, base, h, k + 1, max_reports, best)

\* SelectAutoRoot without the first-employee fallback of lines 138-140
SelectAutoRoot_NoFallback(emps, base, h) ==
  LET withKw == {k \in 1..Len(h.cands) : HasCeoKeyword(emps[h.D[h.cands[k]].src].title)}
      most == MostReports(emps, base, h, 1, 0, 0)
  IN IF h.cands # <<>>
     THEN IF withKw # {} THEN [root |-> h.cands[FirstIn(withKw)], branch |-> "keyword"]
          ELSE [root |-> h.cands[1], branch |-> "first_candidate"]
     ELSE IF most # 0 THEN [root |-> most, branch |-> "most_reports"]
     ELSE [root |-> 0, branch |-> "none"]

\* lines 110-142
SelectAutoRoot(emps, base, h) ==
  LET withKw == {k \in 1..Len(h.cands) : HasCeoKeyword(emps[h.D[h.cands[k]].src].title)}
      most == MostReports(emps, base, h, 1, 0, 0)
  IN IF h.cands # <<>>
     THEN IF withKw # {} THEN [root |-> h.cands[FirstIn(withKw)], branch |-> "keyword"]
          ELSE [root |-> h.cands[1], branch |-> "first_candidate"]
     ELSE IF most # 0 THEN [root |-> most, branch |-> "most_reports"]
     ELSE [root |-> Ref(emps, base, emps[1].id), branch |-> "first_employee"]

\* lines 94-142
BuildAuto(emps, base, h) ==
  LET h1 == AutoLoop(emps, base, [L |-> h.L, D |-> h.D, err |-> FALSE, cands |-> <<>>], 1)
      sel == SelectAutoRoot(emps, base, h1)
  IN [L |-> h1.L, D |-> h1.D, err |-> h1.err,
      root |-> IF h1.err THEN 0 ELSE sel.root,
      branch |-> IF h1.err THEN "none" ELSE sel.branch,
      cands |-> h1.cands]

\* build_org_hierarchy(employees, top_user_email_override=ov, settings=sett)
\* run on the heap (L0, D0)
build_org_hierarchy(emps, L0, D0, sett, ov) ==
  IF emps = <<>>
  THEN [L |-> L0, D |-> D0, err |-> FALSE, root |-> 0, branch |-> "none", cands |-> <<>>]
  ELSE IF \E i \in 1..Len(emps) : emps[i].id = Absent
  THEN \* line 50: emp['id'] raises KeyError before anything is changed
       [L |-> L0, D |-> D0, err |-> TRUE, root |-> 0, branch |-> "none", cands |-> <<>>]
  ELSE LET base == Len(D0)
           h0 == [L |-> L0 \o CopyLists(emps),
                  D |-> D0 \o CopyDicts(emps, Len(L0)),
                  err |-> FALSE]
           cfg == ConfiguredRoot(emps, sett, ov)
       IN IF cfg.pos # 0
          THEN LET b == BuildConfigured(emps, base, h0, cfg.pos)
               IN [L |-> b.L, D |-> b.D, err |-> b.err, root |-> b.root,
                   branch |-> IF b.err THEN "none" ELSE cfg.branch, cands |-> <<>>]
          ELSE BuildAuto(emps, base, h0)

\* ------------------------------------------ collect_missing_manager_records
\* lines 158-164: traverse(node) with the visited set of ids
RECURSIVE Traverse(_, _, _, _)
RECURSIVE TraverseChildren(_, _, _, _, _)
TraverseChildren(L, D, seq, i, visited) ==
  IF i > Len(seq) THEN visited
  ELSE TraverseChildren(L, D, seq, i + 1, Traverse(L, D, seq[i], visited))
\* Traverse that marks the node and does not descend into its children
Traverse_NoDescent(L, D, node, visited) ==
  IF ~Truthy(D[node].id) \/ D[node].id \in visited THEN visited
  ELSE visited \cup {D[node].id}

Traverse(L, D, node, visited) ==
  IF ~Truthy(D[node].id) \/ D[node].id \in visited THEN visited
  ELSE TraverseChildren(L, D, L[D[node].children], 1, visited \cup {D[node].id})

Visited(L, D, rt) == IF rt = 0 THEN {} ELSE Traverse(L, D, rt, {})

\* CollectTopUserEmail taking an empty override as no override
CollectTopUserEmail_EmptyFallsBack(sett, ov) ==
  IF Truthy(ov) THEN OrNone(Lower(Strip(OrEmpty(ov))))
  ELSE OrNone(Lower(Strip(OrEmpty(sett.topLevelUserEmail))))

\* lines 178-181
CollectTopUserEmail(sett, ov) ==
  IF ov # NoneVal THEN OrNone(Lower(Strip(OrEmpty(ov))))
  ELSE OrNone(Lower(Strip(OrEmpty(sett.topLevelUserEmail))))

\* employee_index = {emp['id']: emp for emp in employees if emp.get('id')}
InIndex(emps, id) == \E i \in 1..Len(emps) : Truthy(emps[i].id) /\ emps[i].id = id

\* lines 191-197: the employee is skipped
Exempt(emps, D, rt, sett, ov, i) ==
  LET top_user_email == CollectTopUserEmail(sett, ov)
      email == Lower(Strip(OrEmpty(emps[i].email)))
  IN \/ rt # 0 /\ Truthy(D[rt].id) /\ Truthy(emps[i].id) /\ emps[i].id = D[rt].id
     \/ Truthy(top_user_email) /\ Truthy(email) /\ email = top_user_email

\* A name or department is a number: the rank of the raw string in the
\* order of str, 0 for '', -1 for None or a missing key.  (x or ''):
Blank(x) == IF x = -1 THEN 0 ELSE x

\* MissingReason without the reachability test of lines 206-207
MissingReason_NoDetached(emps, visited, i) ==
  IF ~Truthy(emps[i].managerId) THEN "no_manager"
  ELSE IF ~InIndex(emps, emps[i].managerId) THEN "manager_not_found"
  ELSE ""

\* MissingReason testing reachability before the manager lookup
MissingReason_DetachedFirst(emps, visited, i) ==
  IF emps[i].id \notin visited THEN "detached"
  ELSE IF ~Truthy(emps[i].managerId) THEN "no_manager"
  ELSE IF ~InIndex(emps, emps[i].managerId) THEN "manager_not_found"
  ELSE ""

\* lines 202-207 ("": reason stays None)
MissingReason(emps, visited, i) ==
  IF ~Truthy(emps[i].managerId) THEN "no_manager"
  ELSE IF ~InIndex(emps, emps[i].managerId) THEN "manager_not_found"
  ELSE IF emps[i].id \notin visited THEN "detached"
  ELSE ""

\* MissingRecord reporting the structural reason also for a filtered employee
MissingRecord_NoFiltered(emps, visited, i) ==
  LET reason == MissingReason(emps, visited, i)
      mgr == emps[i].managerId
  IN [id |-> emps[i].id, name |-> emps[i].name, department |-> emps[i].department,
      email |-> emps[i].email,
      managerName |-> IF Truthy(mgr) /\ InIndex(emps, mgr)
                      THEN Blank(emps[LastPos(emps, mgr)].name) ELSE 0,
      reason |-> reason,
      missingReason |-> reason,
      filterReasons |-> emps[i].filterReasons]

\* MissingRecord storing the effective reason in both reason fields
MissingRecord_FilteredOverwrites(emps, visited, i) ==
  LET reason == MissingReason(emps, visited, i)
      mgr == emps[i].managerId
      effective_reason == IF emps[i].filterReasons # <<>> THEN "filtered" ELSE reason
  IN [id |-> emps[i].id, name |-> emps[i].name, department |-> emps[i].department,
      email |-> emps[i].email,
      managerName |-> IF Truthy(mgr) /\ InIndex(emps, mgr)
                      THEN Blank(emps[LastPos(emps, mgr)].name) ELSE 0,
      reason |-> effective_reason,
      missingReason |-> effective_reason,
      filterReasons |-> emps[i].filterReasons]

\* lines 199-200 and 209-235: the record of employee i
MissingRecord(emps, visited, i) ==
  LET reason == MissingReason(emps, visited, i)
      mgr == emps[i].managerId
  IN [id |-> emps[i].id, name |-> emps[i].name, department |-> emps[i].department,
      email |-> emps[i].email,
      managerName |-> IF Truthy(mgr) /\ InIndex(emps, mgr)
                      THEN Blank(emps[LastPos(emps, mgr)].name) ELSE 0,
      reason |-> IF emps[i].filterReasons # <<>> THEN "filtered" ELSE reason,
      missingReason |-> reason,
      filterReasons |-> emps[i].filterReasons]

\* line 237: list.sort, stable, by the key
\* (item.get('department') or '', item.get('name') or '')
KeyLeq(a, b) ==
  \/ Blank(a.department) < Blank(b.department)
  \/ Blank(a.department) = Blank(b.department) /\ Blank(a.name) <= Blank(b.name)

\* InsertSorted putting a record before the records with an equal key
RECURSIVE InsertSorted_Unstable(_, _)
InsertSorted_Unstable(seq, r) ==
  IF seq = <<>> THEN <<r>>
  ELSE IF KeyLeq(seq[Len(seq)], r) /\ ~KeyLeq(r, seq[Len(seq)]) THEN Append(seq, r)
  ELSE Append(InsertSorted_Unstable(SubSeq(seq, 1, Len(seq) - 1), r), seq[Len(seq)])

RECURSIVE InsertSorted(_, _)
InsertSorted(seq, r) ==
  IF seq = <<>> THEN <<r>>
  ELSE IF KeyLeq(seq[Len(seq)], r) THEN Append(seq, r)
  ELSE Append(InsertSorted(SubSeq(seq, 1, Len(seq) - 1), r), seq[Len(seq)])
RECURSIVE StableSort(_, _, _)
StableSort(seq, i, acc) ==
  IF i > Len(seq) THEN acc ELSE StableSort(seq, i + 1, InsertSorted(acc, seq[i]))

\* lines 185-235: the records in input order
RECURSIVE MissingLoop(_, _, _, _, _, _, _, _)
MissingLoop(emps, D, rt, sett, ov, visited, i, acc) ==
  IF i > Len(emps) THEN acc
  ELSE IF Exempt(emps, D, rt, sett, ov, i) \/ MissingReason(emps, visited, i) = ""
       THEN MissingLoop(emps, D, rt, sett, ov, visited, i + 1, acc)
  ELSE MissingLoop(emps, D, rt, sett, ov, visited, i + 1,
                   Append(acc, MissingRecord(emps, visited, i)))

collect_missing_manager_records(emps, L, D, rt, sett, ov) ==
  IF emps = <<>> THEN <<>>
  ELSE StableSort(MissingLoop(emps, D, rt, sett, ov, Visited(L, D, rt), 1, <<>>), 1, <<>>)

\* ------------------------------------------------------------ specification
\* managerId of an employee of a list of n: None, an id of the list, or an
\* id that is not in the list
ManagerIds(n) == {NoneVal, Ghost} \cup {Str(k) : k \in 1..n}
SomeTitles == {"CEO", "Engineer"}
FilterTags == {<<>>, <<"disabled">>}
Plain(n) == [i \in 1..n |-> "Engineer"]
NoTags(n) == [i \in 1..n |-> <<>>]
OwnEmail(n) == [i \in 1..n |-> Str(i)]
OwnIds(n) == {Str(k) : k \in 1..n}

\* The list as fetch_all_employees returns it (msgraph.py 444-471): record i
\* has id i, its own empty children list, and the attributes chosen.  budget
\* is the number of build_org_hierarchy calls the caller makes on the list.
NoPrev == [lists |-> <<>>, dicts |-> <<>>, root |-> 0, override |-> NoneVal, valid |-> FALSE]
InitWith(n, mgr, title, tags, email, hasKey, sEmail, sId, b) ==
  /\ employees = [i \in 1..n |->
        [id |-> Str(i), managerId |-> mgr[i], email |-> email[i], title |-> title[i],
         name |-> 1, department |-> 1, filterReasons |-> tags[i],
         children |-> IF hasKey THEN i ELSE 0]]
  /\ lists = IF hasKey THEN [i \in 1..n |-> <<>>] ELSE <<>>
  /\ dicts = <<>>
  /\ settings = [topLevelUserEmail |-> sEmail, topLevelUserId |-> sId]
  /\ root = 0
  /\ override = NoneVal
  /\ branch = "none"
  /\ candidates = <<>>
  /\ raised = FALSE
  /\ calls = 0
  /\ budget = b
  /\ missing = <<>>
  /\ collected = FALSE
  /\ prev = NoPrev
  /\ NoRefresh /\ NoScheduler /\ NoTraversal

\* the state before the first call on the list emps, whose records carry the
\* list objects ls
InitList(emps, ls, sEmail, sId, b) ==
  /\ employees = emps
  /\ lists = ls
  /\ dicts = <<>>
  /\ settings = [topLevelUserEmail |-> sEmail, topLevelUserId |-> sId]
  /\ root = 0
  /\ override = NoneVal
  /\ branch = "none"
  /\ candidates = <<>>
  /\ raised = FALSE
  /\ calls = 0
  /\ budget = b
  /\ missing = <<>>
  /\ collected = FALSE
  /\ prev = NoPrev
  /\ NoRefresh /\ NoScheduler /\ NoTraversal

\* hierarchy = build_org_hierarchy(employees, top_user_email_override=ov,
\*                                 settings=settings)
Build(ov) ==
  /\ calls < budget
  /\ LET b == build_org_hierarchy(employees, lists, dicts, settings, ov)
     IN /\ lists' = b.L
        /\ dicts' = b.D
        /\ root' = b.root
        /\ raised' = b.err
        /\ branch' = b.branch
        /\ candidates' = b.cands
  /\ override' = ov
  /\ calls' = calls + 1
  /\ missing' = <<>>
  /\ collected' = FALSE
  /\ prev' = [lists |-> lists, dicts |-> dicts, root |-> root, override |-> override,
               valid |-> calls > 0 /\ ~raised]
  /\ UNCHANGED <<employees, settings, budget>>
  /\ UNCHANGED <<uvars, svars, tvars>>

\* missing_records = collect_missing_manager_records(employees, hierarchy,
\*     settings, top_user_email_override=ov) with the override of the build
Collect ==
  /\ calls > 0
  /\ ~collected
  /\ ~raised
  /\ missing' = collect_missing_manager_records(employees, lists, dicts, root,
                                                 settings, override)
  /\ collected' = TRUE
  /\ UNCHANGED <<employees, settings, lists, dicts, root, override, branch,
                 candidates, raised, calls, budget, prev>>
  /\ UNCHANGED <<uvars, svars, tvars>>

\* Spec: one refresh (data_update.py 360-382): a fetched list is built once
\* and the report collected; titles, settings and overrides vary.
Init ==
  \E n \in 0..MaxEmp :
    \E mgr \in [1..n -> ManagerIds(n)], title \in [1..n -> SomeTitles],
       sEmail \in {EmptyStr} \cup OwnIds(n),
       sId \in {EmptyStr, Ghost} \cup OwnIds(n) :
      InitWith(n, mgr, title, NoTags(n), OwnEmail(n), TRUE, sEmail, sId, 1)

Overrides == {NoneVal, EmptyStr, Ghost} \cup OwnIds(MaxEmp)

Next == (\E ov \in Overrides : Build(ov)) \/ Collect

Spec == Init /\ [][Next]_vars

\* SpecCollect: one refresh with filtered records in the list and top-user
\* emails that differ from the stored ones in case or padding.
InitCollect ==
  \E n \in 0..MaxEmp :
    \E mgr \in [1..n -> ManagerIds(n)], tags \in [1..n -> FilterTags],
       sEmail \in {EmptyStr, Str(2), Upper(1)} :
      InitWith(n, mgr, Plain(n), tags, OwnEmail(n), TRUE, sEmail, EmptyStr, 1)

OverridesCollect == {NoneVal, EmptyStr, Str(1), Upper(2), Padded(3)}

NextCollect == (\E ov \in OverridesCollect : Build(ov)) \/ Collect

SpecCollect == InitCollect /\ [][NextCollect]_vars

\* SpecReuse: a caller that builds several hierarchies from one list object
\* (the cached list with a session override, app_main.py 1063-1084).
InitReuse ==
  \E n \in 0..MaxEmp :
    \E mgr \in [1..n -> ManagerIds(n)], hasKey \in BOOLEAN,
       sEmail \in {EmptyStr, Str(2)} :
      InitWith(n, mgr, Plain(n), NoTags(n), OwnEmail(n), hasKey, sEmail, EmptyStr,
               MaxCalls)

OverridesReuse == {NoneVal, EmptyStr} \cup OwnIds(MaxEmp)

NextReuse == (\E ov \in OverridesReuse : Build(ov)) \/ Collect

SpecReuse == InitReuse /\ [][NextReuse]_vars

\* SpecTitles: one refresh with no root configured; the titles of the
\* employees vary over titles with and without a keyword of line 111.
AllTitles == {"CEO", "Head of Sales", "Engineer"}
InitTitles ==
  \E n \in 0..MaxEmp :
    \E mgr \in [1..n -> ManagerIds(n)], title \in [1..n -> AllTitles] :
      InitWith(n, mgr, title, NoTags(n), OwnEmail(n), TRUE, EmptyStr, EmptyStr, 1)

OverridesTitles == {NoneVal, EmptyStr}

NextTitles == (\E ov \in OverridesTitles : Build(ov)) \/ Collect

SpecTitles == InitTitles /\ [][NextTitles]_vars

\* SpecNoId: one refresh of a list in which records may come without an id:
\* the 'id' key is missing, or it is there with the value None (msgraph.py
\* 445 stores user.get("id")).
IdsOf(i) == {Str(i), NoneVal, Absent}
InitNoId ==
  \E n \in 0..MaxEmp :
    \E mgr \in [1..n -> ManagerIds(n)],
       ids \in {f \in [1..n -> {Str(k) : k \in 1..n} \cup {NoneVal, Absent}] :
                  \A i \in 1..n : f[i] \in IdsOf(i)} :
      InitList([i \in 1..n |->
                  [id |-> ids[i], managerId |-> mgr[i], email |-> Str(i),
                   title |-> "Engineer", name |-> 1, department |-> 1,
                   filterReasons |-> <<>>, children |-> i]],
               [i \in 1..n |-> <<>>], EmptyStr, EmptyStr, 1)

OverridesNoId == {NoneVal, EmptyStr, Str(1)}

NextNoId == (\E ov \in OverridesNoId : Build(ov)) \/ Collect

SpecNoId == InitNoId /\ [][NextNoId]_vars

\* SpecSort: one refresh of a list in which every employee but the root is
\* reported (no employee has a manager); names and departments vary and may
\* be None or ''.
SortRanks == {-1, 0, 1}
InitSort ==
  \E n \in 0..MaxSort :
    \E name \in [1..n -> SortRanks], department \in [1..n -> SortRanks] :
      InitList([i \in 1..n |->
                  [id |-> Str(i), managerId |-> NoneVal, email |-> Str(i),
                   title |-> "Engineer", name |-> name[i],
                   department |-> department[i],
                   filterReasons |-> <<>>, children |-> i]],
               [i \in 1..n |-> <<>>], EmptyStr, EmptyStr, 1)

OverridesSort == {NoneVal, EmptyStr}

NextSort == (\E ov \in OverridesSort : Build(ov)) \/ Collect

SpecSort == InitSort /\ [][NextSort]_vars

\* SpecDup: one refresh of a list put together from several fetch lists, in
\* which a record may occur a second time: rep[i] = 0 says position i holds
\* a record of its own, rep[i] = j that it holds the record of position j
\* again, as the same dict object (sameObj) or as an equal dict with a
\* children list of its own.
Repeats(n) ==
  {rep \in [1..n -> 0..n] : \A i \in 1..n : rep[i] # 0 => rep[i] < i /\ rep[rep[i]] = 0}
InitDup ==
  \E n \in 0..MaxDup :
    \E rep \in Repeats(n), sameObj \in BOOLEAN :
     \E mgr \in {f \in [1..n -> ManagerIds(n)] :
                   \A i \in 1..n : rep[i] # 0 => f[i] = NoneVal} :
      InitList([i \in 1..n |->
                  LET o == IF rep[i] = 0 THEN i ELSE rep[i]
                  IN [id |-> Str(o), managerId |-> mgr[o], email |-> Str(o),
                      title |-> "Engineer", name |-> 1, department |-> 1,
                      filterReasons |-> <<>>,
                      children |-> IF sameObj THEN o ELSE i]],
               [i \in 1..n |-> <<>>], EmptyStr, EmptyStr, 1)

OverridesDup == {NoneVal, Str(1), Str(2)}

NextDup == (\E ov \in OverridesDup : Build(ov)) \/ Collect

SpecDup == InitDup /\ [][NextDup]_vars

\* ------------------------------------------------------------ data_update.py
\* bounds of the refresh scenarios
MaxThreads == 2       \* threads of the process that refresh or read the status
MaxTime == 3          \* hours the clock runs
MaxInvocations == 1   \* update_employee_data calls per thread
\* timedelta(hours=2), line 104
StaleAfter == 2

Threads == 1..MaxThreads
\* the source argument a thread passes
Sources == [t \in Threads |-> IF t = 1 THEN "scheduled" ELSE "manual"]

\* lines 82-117: the error text of the stale_override, "" when the stored
\* status is kept
\* StaleReason calling a status of exactly two hours stuck
StaleReason_AtTwoHours(st, started, clock) ==
  IF st.state # "running" THEN ""
  ELSE IF ~started THEN "restart"
  ELSE IF st.startedAt \in {NoTime, BadTime} THEN "invalid"
  ELSE IF clock - st.startedAt >= StaleAfter THEN "stuck"
  ELSE ""
StaleReason(st, started, clock) ==
  IF st.state # "running" THEN ""
  ELSE IF ~started THEN "restart"
  ELSE IF st.startedAt \in {NoTime, BadTime} THEN "invalid"
  ELSE IF clock - st.startedAt > StaleAfter THEN "stuck"
  ELSE ""
\* lines 86-91, 105-117 and 119-123: the stale_override with lastSuccessAt
\* carried over
StaleOverride(st, clock, err) ==
  St("idle", "absent", NoTime, "false", clock, err, st.lastSuccessAt)
\* lines 136-142
RunningStatus(previous_status, source, clock) ==
  St("running", source, clock, "absent", NoTime, "absent", previous_status.lastSuccessAt)
\* lines 152-166
FinishedStatus(previous_status, success, source, fin, err) ==
  IF success THEN St("idle", source, NoTime, "true", fin, "absent", fin)
  ELSE St("idle", source, NoTime, "false", fin, err, previous_status.lastSuccessAt)

\* a thread: pc is its position, ret the position load_data_update_status
\* returns to, snap the snapshot the last load returned, stale the pending
\* stale_override, success, error and fin the locals of the refresh and of
\* mark_data_update_finished; and what the current update_employee_data
\* call did so far: the token requested, the files written (wrote), the
\* status writes made (did), state and success of the final status, the
\* path taken
NoFinal == [state |-> "absent", success |-> "absent"]
IdleThread(src) ==
  [pc |-> "idle", ret |-> "idle", snap |-> NoStatus, stale |-> NoStatus,
   source |-> src, success |-> FALSE, error |-> "absent",
   fin |-> NoTime, inv |-> 0, token |-> FALSE, wrote |-> {}, did |-> {},
   final |-> NoFinal, path |-> "none"]
UntouchedFiles == [data |-> [by |-> 0, inv |-> 0, whole |-> TRUE],
                   missing |-> [by |-> 0, inv |-> 0, whole |-> TRUE]]

UpdateFrame == UNCHANGED <<hvars, svars, tvars>>

\* ShouldSkip letting every request through
ShouldSkip_Never(existing_status) == FALSE

\* line 283: the request is skipped
ShouldSkip(existing_status) == existing_status.state = "running"

\* update_employee_data(source) is called (278-282): it loads the status
Invoke(t) ==
  /\ startup
  /\ thr[t].pc = "idle"
  /\ thr[t].inv < MaxInvocations
  /\ thr' = [thr EXCEPT ![t] = [IdleThread(thr[t].source) EXCEPT
                                  !.pc = "load", !.ret = "check",
                                  !.inv = thr[t].inv + 1, !.path = "started"]]
  /\ UNCHANGED <<status, startup, now, files>>
  /\ UpdateFrame

\* a request handler reads the status: load_data_update_status()
Poll(t) ==
  /\ startup
  /\ thr[t].pc = "idle"
  /\ thr' = [thr EXCEPT ![t].pc = "load", ![t].ret = "polled"]
  /\ UNCHANGED <<status, startup, now, files>>
  /\ UpdateFrame

\* the handler has answered with the snapshot
PollReturn(t) ==
  /\ thr[t].pc = "polled"
  /\ thr' = [thr EXCEPT ![t].pc = "idle", ![t].ret = "idle", ![t].snap = NoStatus]
  /\ UNCHANGED <<status, startup, now, files>>
  /\ UpdateFrame

\* load_data_update_status, lines 71-125, under _DATA_UPDATE_STATUS_LOCK:
\* the file is read, a stale running status is replaced in the snapshot
Load(t) ==
  /\ thr[t].pc = "load"
  /\ LET err == StaleReason(status, startup, now)
     IN thr' = [thr EXCEPT
                  ![t].snap = IF err = "" THEN status ELSE StaleOverride(status, now, err),
                  ![t].stale = IF err = "" THEN NoStatus ELSE StaleOverride(status, now, err),
                  ![t].pc = IF err = "" THEN thr[t].ret ELSE "reset"]
  /\ UNCHANGED <<status, startup, now, files>>
  /\ UpdateFrame

\* lines 127-128: the stale_override is written, after the lock was released
Reset(t) ==
  /\ thr[t].pc = "reset"
  /\ status' = thr[t].stale
  /\ thr' = [thr EXCEPT ![t].pc = thr[t].ret, ![t].stale = NoStatus,
                        ![t].did = @ \cup {"reset"}]
  /\ UNCHANGED <<startup, now, files>>
  /\ UpdateFrame

\* lines 523-524, module initialisation: after the first load
\* mark_startup_complete()
Startup(t) ==
  /\ thr[t].pc = "startup"
  /\ startup' = TRUE
  /\ thr' = [thr EXCEPT ![t].pc = "idle", ![t].ret = "idle", ![t].snap = NoStatus]
  /\ UNCHANGED <<status, now, files>>
  /\ UpdateFrame

\* lines 282-290: existing_status = load_data_update_status(); return when
\* it says running, else go on to mark_data_update_running
Check(t) ==
  /\ thr[t].pc = "check"
  /\ thr' = [thr EXCEPT
               ![t].snap = NoStatus,
               ![t].pc = IF ShouldSkip(thr[t].snap) THEN "idle" ELSE "load",
               ![t].ret = IF ShouldSkip(thr[t].snap) THEN "idle" ELSE "mark",
               ![t].path = IF ShouldSkip(thr[t].snap) THEN "skipped" ELSE "started"]
  /\ UNCHANGED <<status, startup, now, files>>
  /\ UpdateFrame

\* mark_data_update_running, lines 136-143, after its load (135)
Mark(t) ==
  /\ thr[t].pc = "mark"
  /\ status' = RunningStatus(thr[t].snap, thr[t].source, now)
  /\ thr' = [thr EXCEPT ![t].pc = "body", ![t].ret = "idle", ![t].snap = NoStatus,
                        ![t].did = @ \cup {"running"}]
  /\ UNCHANGED <<startup, now, files>>
  /\ UpdateFrame

\* lines 291-360: the body up to the hierarchy.  The directory is not
\* writable, the token is refused, the fetch or the build raises, no
\* employee is fetched, or a hierarchy is built.
Outcomes == {"unwritable", "no_token", "exception", "no_employees", "hierarchy"}
\* Body writing the cache files whenever it reaches line 325, employees or not
Body_AlwaysWrites(t) ==
  /\ thr[t].pc = "body"
  /\ \E o \in Outcomes :
       thr' = [thr EXCEPT
                 ![t].path = o,
                 ![t].token = o # "unwritable",
                 ![t].error = CASE o = "unwritable" -> "unwritable"
                                [] o = "no_token" -> "no_token"
                                [] o = "exception" -> "exception"
                                [] OTHER -> "absent",
                 ![t].success = o = "no_employees",
                 ![t].pc = IF o \in {"hierarchy", "no_employees"}
                           THEN "write_data" ELSE "finally"]
  /\ UNCHANGED <<status, startup, now, files>>
  /\ UpdateFrame

Body(t) ==
  /\ thr[t].pc = "body"
  /\ \E o \in Outcomes :
       thr' = [thr EXCEPT
                 ![t].path = o,
                 ![t].token = o # "unwritable",
                 ![t].error = CASE o = "unwritable" -> "unwritable"
                                [] o = "no_token" -> "no_token"
                                [] o = "exception" -> "exception"
                                [] OTHER -> "absent",
                 ![t].success = o = "no_employees",
                 ![t].pc = IF o = "hierarchy" THEN "write_data" ELSE "finally"]
  /\ UNCHANGED <<status, startup, now, files>>
  /\ UpdateFrame

\* lines 411-412: DATA_FILE is opened for writing and the hierarchy dumped;
\* json.dump may raise (a hierarchy with a cycle) after the file was opened
WriteData(t) ==
  /\ thr[t].pc = "write_data"
  /\ \E ok \in BOOLEAN :
       /\ files' = [files EXCEPT !.data = [by |-> t, inv |-> thr[t].inv, whole |-> ok]]
       /\ thr' = [thr EXCEPT
                    ![t].wrote = @ \cup {"data"},
                    ![t].error = IF ok THEN "absent" ELSE "exception",
                    ![t].path = IF ok THEN @ ELSE "dump_error",
                    ![t].pc = IF ok THEN "write_missing" ELSE "finally"]
  /\ UNCHANGED <<status, startup, now>>
  /\ UpdateFrame

\* lines 415-511: MISSING_MANAGER_FILE and the other reports are written
\* (their errors are caught), success = True
WriteMissing(t) ==
  /\ thr[t].pc = "write_missing"
  /\ files' = [files EXCEPT !.missing = [by |-> t, inv |-> thr[t].inv, whole |-> TRUE]]
  /\ thr' = [thr EXCEPT ![t].wrote = @ \cup {"missing"}, ![t].success = TRUE,
                        ![t].pc = "finally"]
  /\ UNCHANGED <<status, startup, now>>
  /\ UpdateFrame

\* lines 515-519 and 152-163: the finally clause calls
\* mark_data_update_finished, which notes finishedAt and, for a failure,
\* loads the previous status
\* Finally leaving an early return without mark_data_update_finished
Finally_SkipsEarlyReturn(t) ==
  /\ thr[t].pc = "finally"
  /\ thr' = [thr EXCEPT ![t].fin = now,
                        ![t].pc = IF thr[t].path \in {"unwritable", "no_token"} THEN "idle"
                                  ELSE IF thr[t].success THEN "finish" ELSE "load",
                        ![t].ret = IF thr[t].path \in {"unwritable", "no_token"} THEN "idle"
                                   ELSE "finish"]
  /\ UNCHANGED <<status, startup, now, files>>
  /\ UpdateFrame

Finally(t) ==
  /\ thr[t].pc = "finally"
  /\ thr' = [thr EXCEPT ![t].fin = now,
                        ![t].pc = IF thr[t].success THEN "finish" ELSE "load",
                        ![t].ret = "finish"]
  /\ UNCHANGED <<status, startup, now, files>>
  /\ UpdateFrame

\* line 167: the final status is written
Finish(t) ==
  /\ thr[t].pc = "finish"
  /\ LET st == FinishedStatus(thr[t].snap, thr[t].success, thr[t].source,
                              thr[t].fin, thr[t].error)
     IN /\ status' = st
        /\ thr' = [thr EXCEPT ![t].pc = "idle", ![t].ret = "idle",
                              ![t].final = [state |-> st.state, success |-> st.success],
                              ![t].snap = NoStatus, ![t].fin = NoTime,
                              ![t].did = @ \cup {"final"}]
  /\ UNCHANGED <<startup, now, files>>
  /\ UpdateFrame

\* an hour passes
Tick ==
  /\ now < MaxTime
  /\ now' = now + 1
  /\ UNCHANGED <<status, startup, thr, files>>
  /\ UpdateFrame

Step(t) ==
  \/ Invoke(t) \/ Poll(t) \/ PollReturn(t) \/ Load(t) \/ Reset(t) \/ Startup(t) \/ Check(t)
  \/ Mark(t) \/ Body(t) \/ WriteData(t) \/ WriteMissing(t) \/ Finally(t) \/ Finish(t)

\* a thread that has entered a function goes on to execute it: every step
\* but the arrival of a new request (Invoke, Poll) and the clock
Proceed(t) ==
  \/ PollReturn(t) \/ Load(t) \/ Reset(t) \/ Startup(t) \/ Check(t)
  \/ Mark(t) \/ Body(t) \/ WriteData(t) \/ WriteMissing(t) \/ Finally(t) \/ Finish(t)

\* the hierarchy functions are not part of the refresh scenarios
NoHierarchy ==
  /\ employees = <<>> /\ lists = <<>> /\ dicts = <<>>
  /\ settings = [topLevelUserEmail |-> EmptyStr, topLevelUserId |-> EmptyStr]
  /\ root = 0 /\ override = NoneVal /\ branch = "none" /\ candidates = <<>>
  /\ raised = FALSE /\ calls = 0 /\ budget = 0 /\ missing = <<>>
  /\ collected = FALSE /\ prev = NoPrev

\* the status file a starting process finds: none, the idle status of a
\* finished refresh, or a running status left behind
StoredStatuses ==
  {NoStatus,
   St("idle", "scheduled", NoTime, "true", 0, "absent", 0),
   St("running", "scheduled", 0, "absent", NoTime, "absent", 0),
   St("running", "manual", 0, "absent", NoTime, "absent", NoTime)}

\* SpecUpdate: a process starts (thread 1 runs the module initialisation,
\* lines 523-524) and its threads refresh and read the status.
InitUpdate ==
  /\ status \in StoredStatuses
  /\ startup = FALSE
  /\ now = 0
  /\ thr = [t \in Threads |->
              IF t = 1 THEN [IdleThread(Sources[t]) EXCEPT !.pc = "load", !.ret = "startup"]
              ELSE IdleThread(Sources[t])]
  /\ files = UntouchedFiles
  /\ NoHierarchy /\ NoScheduler /\ NoTraversal

NextUpdate == (\E t \in Threads : Step(t)) \/ Tick

SpecUpdate == InitUpdate /\ [][NextUpdate]_vars

\* SpecUpdateFair: a process that finds a running status left behind, with
\* threads that are scheduled again and again; the lock at line 50 is held
\* for a few statements only and the body has no loop without an end
InitLeftRunning == InitUpdate /\ status = St("running", "scheduled", 0, "absent", NoTime, "absent", 0)
SpecUpdateFair ==
  /\ InitLeftRunning /\ [][NextUpdate]_vars
  /\ \A t \in Threads : WF_vars(Proceed(t))

\* SpecLoad: load_data_update_status on any status file.  The file is read
\* from disk (lines 72-76) and may hold a running status without a usable
\* startedAt; the process is at its first load (lines 523-524) or past it.
StatusFiles ==
  {NoStatus, St("idle", "scheduled", NoTime, "true", 0, "absent", 0)}
  \cup {St("running", "scheduled", s, "absent", NoTime, "absent", l) :
          s \in {NoTime, BadTime} \cup (0..MaxTime), l \in {NoTime, 0}}
InitLoad ==
  /\ status \in StatusFiles
  /\ startup \in BOOLEAN
  /\ now \in 0..MaxTime
  /\ thr = [t \in Threads |->
              IF t = 1 THEN [IdleThread(Sources[t]) EXCEPT
                               !.pc = "load",
                               !.ret = IF startup THEN "polled" ELSE "startup"]
              ELSE IdleThread(Sources[t])]
  /\ files = UntouchedFiles
  /\ NoHierarchy /\ NoScheduler /\ NoTraversal

NextLoad == Load(1) \/ Reset(1) \/ Startup(1) \/ Poll(1) \/ PollReturn(1)

SpecLoad == InitLoad /\ [][NextLoad]_vars

\* ------------------------------------------------- traverse, step by step
\* hierarchy.py 158-167: the recursion of traverse(node) as a stack of
\* calls.  A frame is [node, k]: k = 0 before line 159, else the position
\* of the next child in the loop of line 163.
MaxNodes == 3   \* dicts of a hierarchy graph
MaxKids == 2    \* longest children list of a graph
MaxDepth == 3   \* frames the interpreter allows (sys.getrecursionlimit())

\* AlreadyVisited without the visited set
AlreadyVisited_OnlyMissingId(node_id, visited) == ~Truthy(node_id)

\* line 160: if not node_id or node_id in visited: return
AlreadyVisited(node_id, visited) == ~Truthy(node_id) \/ node_id \in visited

Top == stack[Len(stack)]
Pop == SubSeq(stack, 1, Len(stack) - 1)
KidsOf(node) == lists[dicts[node].children]
TraverseFrame ==
  UNCHANGED <<employees, settings, lists, dicts, root, override, branch, candidates,
              calls, budget, missing, collected, prev, uvars, svars>>

\* lines 159-162: the call returns at once or adds the id to visited
TraverseEnter ==
  /\ stack # <<>> /\ Top.k = 0
  /\ IF AlreadyVisited(dicts[Top.node].id, marks)
     THEN stack' = Pop /\ UNCHANGED <<marks, trace>>
     ELSE /\ marks' = marks \cup {dicts[Top.node].id}
          /\ trace' = Append(trace, dicts[Top.node].id)
          /\ stack' = [stack EXCEPT ![Len(stack)].k = 1]
  /\ UNCHANGED raised
  /\ TraverseFrame

\* lines 163-164: traverse(child) for the next child
TraverseChild ==
  /\ stack # <<>> /\ Top.k >= 1 /\ Top.k <= Len(KidsOf(Top.node))
  /\ Len(stack) < MaxDepth
  /\ stack' = Append([stack EXCEPT ![Len(stack)].k = Top.k + 1],
                     [node |-> KidsOf(Top.node)[Top.k], k |-> 0])
  /\ UNCHANGED <<marks, trace, raised>>
  /\ TraverseFrame

\* the call of line 164 exceeds the recursion limit: RecursionError unwinds
\* every frame
TraverseOverflow ==
  /\ stack # <<>> /\ Top.k >= 1 /\ Top.k <= Len(KidsOf(Top.node))
  /\ Len(stack) >= MaxDepth
  /\ stack' = <<>>
  /\ raised' = TRUE
  /\ UNCHANGED <<marks, trace>>
  /\ TraverseFrame

\* the loop of line 163 is over: the call returns
TraverseReturn ==
  /\ stack # <<>> /\ Top.k > Len(KidsOf(Top.node))
  /\ stack' = Pop
  /\ UNCHANGED <<marks, trace, raised>>
  /\ TraverseFrame

\* SpecTraverse: traverse(hierarchy_root), line 167, on any graph of up to
\* MaxNodes dicts: children lists may name any dict, the dict itself and
\* the root included, two dicts may carry the same id, a dict may have none
KidLists(n) == UNION {[1..m -> 1..n] : m \in 0..MaxKids}
NodeIds(d) == IF d = 1 THEN {Str(1)}
              ELSE IF d = 2 THEN {Str(2), Str(1)}
              ELSE {Str(d), NoneVal}
InitTraverse ==
  \E n \in 1..MaxNodes :
    \E ids \in [1..n -> UNION {NodeIds(d) : d \in 1..n}], kids \in [1..n -> KidLists(n)] :
      /\ \A d \in 1..n : ids[d] \in NodeIds(d)
      /\ dicts = [d \in 1..n |-> [id |-> ids[d], children |-> d]]
      /\ lists = [d \in 1..n |-> kids[d]]
      /\ root = 1
      /\ stack = <<[node |-> 1, k |-> 0]>>
      /\ marks = {} /\ trace = <<>>
      /\ employees = <<>>
      /\ settings = [topLevelUserEmail |-> EmptyStr, topLevelUserId |-> EmptyStr]
      /\ override = NoneVal /\ branch = "none" /\ candidates = <<>>
      /\ raised = FALSE /\ calls = 0 /\ budget = 0 /\ missing = <<>>
      /\ collected = FALSE /\ prev = NoPrev
      /\ NoRefresh /\ NoScheduler

NextTraverse == TraverseEnter \/ TraverseChild \/ TraverseOverflow \/ TraverseReturn

\* the interpreter goes on executing the call
SpecTraverse == InitTraverse /\ [][NextTraverse]_vars /\ WF_vars(NextTraverse)

\* ------------------------------------------------------------ scheduler.py
\* The worker processes share the data directory and with it the file
\* .scheduler.lock.  proc[p] holds _scheduler_running of process p, the
\* position of a restart_scheduler call in it, and its _schedule_loop
\* threads in the order they were started.  A loop thread is at: "setup"
\* (lines 85-97), "initial" (in the callback of line 101 or 107), "test"
\* (line 127), "due" (lines 128-130, the run is due), "callback" (in the
\* callback of line 131), "sleep" (line 149), "done" (returned).  stopped
\* says that stop_scheduler ran while the thread was alive, last is the
\* source of the callback the thread invoked last.
MaxProcs == 2   \* worker processes
MaxLoops == 2   \* _schedule_loop threads a process starts

Procs == 1..MaxProcs
NewLoop == [pc |-> "setup", stopped |-> FALSE, last |-> "none"]
IdleProc == [running |-> FALSE, restart |-> "idle", loops |-> <<>>]
SchedFrame == UNCHANGED <<hvars, uvars, tvars>>

\* lines 208-213, under _scheduler_lock: the flag is cleared and the flock
\* released; the thread is not joined
StopEffect(p, pr) ==
  /\ flock' = 0
  /\ proc' = [pr EXCEPT ![p].running = FALSE,
                        ![p].loops =
                          [i \in 1..Len(pr[p].loops) |->
                             IF pr[p].loops[i].pc = "done" THEN pr[p].loops[i]
                             ELSE [pr[p].loops[i] EXCEPT !.stopped = TRUE]]]

\* start_scheduler() (app_main.py 793, 805), lines 189-200 under
\* _scheduler_lock: the call returns when the flag is set or the flock is
\* refused (160, LOCK_NB) and then changes nothing; else the flag is set
\* and a thread started
Start(p) ==
  /\ ~proc[p].running /\ flock = 0
  /\ Len(proc[p].loops) < MaxLoops
  /\ flock' = p
  /\ proc' = [proc EXCEPT ![p].running = TRUE, ![p].loops = Append(@, NewLoop)]
  /\ SchedFrame

\* stop_scheduler() (app_main.py 798, 808)
Stop(p) ==
  /\ proc[p].running
  /\ StopEffect(p, proc)
  /\ SchedFrame

\* restart_scheduler() (app_main.py 1191, 1516), line 218: stop_scheduler()
RestartStop(p) ==
  /\ proc[p].restart = "idle"
  /\ Len(proc[p].loops) < MaxLoops
  /\ IF proc[p].running
     THEN StopEffect(p, [proc EXCEPT ![p].restart = "sleep"])
     ELSE proc' = [proc EXCEPT ![p].restart = "sleep"] /\ UNCHANGED flock
  /\ SchedFrame

\* lines 219-221: after time.sleep(2), start_scheduler()
RestartStart(p) ==
  /\ proc[p].restart = "sleep"
  /\ \/ /\ ~proc[p].running /\ flock = 0
        /\ flock' = p
        /\ proc' = [proc EXCEPT ![p].running = TRUE, ![p].restart = "idle",
                                ![p].loops = Append(@, NewLoop)]
     \/ /\ proc[p].running \/ flock # 0
        /\ proc' = [proc EXCEPT ![p].restart = "idle"]
        /\ UNCHANGED flock
  /\ SchedFrame

\* the loop thread i of process p is at pc a
At(p, i, a) == i \in 1..Len(proc[p].loops) /\ proc[p].loops[i].pc = a

\* lines 85-110: the initial update runs (RUN_INITIAL_UPDATE true, or auto
\* without a cached DATA_FILE) or is skipped; the flag is not read
LoopSetup(p, i) ==
  /\ At(p, i, "setup")
  /\ \/ proc' = [proc EXCEPT ![p].loops[i].pc = "initial", ![p].loops[i].last = "startup"]
     \/ proc' = [proc EXCEPT ![p].loops[i].pc = "test"]
  /\ UNCHANGED flock
  /\ SchedFrame

\* the callback of line 101 or 107 returned
LoopInitialReturn(p, i) ==
  /\ At(p, i, "initial")
  /\ proc' = [proc EXCEPT ![p].loops[i].pc = "test"]
  /\ UNCHANGED flock
  /\ SchedFrame

\* line 127: while _scheduler_running, read without _scheduler_lock; line
\* 128: the run is due or not
LoopTest(p, i) ==
  /\ At(p, i, "test")
  /\ IF proc[p].running
     THEN \E next \in {"due", "sleep"} :
            proc' = [proc EXCEPT ![p].loops[i].pc = next]
     ELSE proc' = [proc EXCEPT ![p].loops[i].pc = "done", ![p].loops[i].last = "none"]
  /\ UNCHANGED flock
  /\ SchedFrame

\* line 131: update_callback(source='scheduled')
LoopCall(p, i) ==
  /\ At(p, i, "due")
  /\ proc' = [proc EXCEPT ![p].loops[i].pc = "callback", ![p].loops[i].last = "scheduled"]
  /\ UNCHANGED flock
  /\ SchedFrame

\* lines 132-147: the callback returned (or raised), the next run is set
LoopCallReturn(p, i) ==
  /\ At(p, i, "callback")
  /\ proc' = [proc EXCEPT ![p].loops[i].pc = "sleep"]
  /\ UNCHANGED flock
  /\ SchedFrame

\* line 149: time.sleep(30) is over
LoopWake(p, i) ==
  /\ At(p, i, "sleep")
  /\ proc' = [proc EXCEPT ![p].loops[i].pc = "test"]
  /\ UNCHANGED flock
  /\ SchedFrame

LoopStep(p, i) ==
  \/ LoopSetup(p, i) \/ LoopInitialReturn(p, i) \/ LoopTest(p, i)
  \/ LoopCall(p, i) \/ LoopCallReturn(p, i) \/ LoopWake(p, i)

\* SpecSched: the worker processes start, stop and restart their
\* schedulers while the loop threads run
InitSched ==
  /\ flock = 0
  /\ proc = [p \in Procs |-> IdleProc]
  /\ NoHierarchy /\ NoRefresh /\ NoTraversal

NextSched ==
  \E p \in Procs :
    \/ Start(p) \/ Stop(p) \/ RestartStop(p) \/ RestartStart(p)
    \/ \E i \in 1..MaxLoops : LoopStep(p, i)

SpecSched == InitSched /\ [][NextSched]_vars

\* -------------------------------------------------------------- properties
\* the dicts of emp_dict of the last call, and the children of a dict
Index == {Ref(employees, Len(dicts) - Len(employees), employees[i].id) :
            i \in 1..Len(employees)}
ChildrenOf(d) == {lists[dicts[d].children][k] : k \in 1..Len(lists[dicts[d].children])}
Built == calls > 0 /\ root # 0
UniqueIds ==
  \A i, j \in 1..Len(employees) : employees[i].id = employees[j].id => i = j

\* dicts reachable from d through one or more children edges
RECURSIVE ReachFrom(_, _)
ReachFrom(frontier, seen) ==
  LET next == UNION {ChildrenOf(d) : d \in frontier} \ seen
  IN IF next = {} THEN seen ELSE ReachFrom(next, seen \cup next)
Descendants(d) == ReachFrom({d}, {})

\* C1 (as claimed): for every non-empty list with unique ids and every
\* root-selection configuration, the returned root is in the children list
\* of no node of the index, and no node reachable from the root is its own
\* descendant.
C1_RootIsNobodysChild ==
  (Built /\ UniqueIds) =>
    /\ \A d \in Index : \A c \in ChildrenOf(d) : dicts[c].id # dicts[root].id
    /\ \A d \in Descendants(root) \cup {root} : d \notin Descendants(d)

\* C2 (as claimed): the node returned for a non-empty input has
\* managerId = None, whichever branch selected it.
C2_RootManagerIsNone == Built => dicts[root].managerId = NoneVal

\* the root heuristic auto-detection chooses for the list as it was handed
\* to the last call
FreshLists == [i \in 1..Len(employees) |-> <<>>]
AutoDetected ==
  BuildAuto(employees, Len(prev.dicts),
            [L |-> prev.lists \o CopyLists(employees),
             D |-> prev.dicts \o CopyDicts(employees, Len(prev.lists))])
\* the override was passed and equals, stripped, no employee's email
OverrideUnmatched ==
  /\ override # NoneVal
  /\ \A i \in 1..Len(employees) : employees[i].email # Strip(override)
NamesEmployee(s) == \E i \in 1..Len(employees) : employees[i].id = s

EffectiveEmail ==
  IF override # NoneVal THEN Strip(override) ELSE Strip(settings.topLevelUserEmail)
HasEmail(e) == {i \in 1..Len(employees) : e # EmptyStr /\ employees[i].email = e}

\* C4: an override that matches an employee email makes that employee the
\* root whatever the configured email and id; without an override a matching
\* configured email does, whatever the configured id; the root is the
\* employee of the configured id only when no email selected one.
C4_RootPrecedence ==
  Built =>
    /\ (override # NoneVal /\ HasEmail(Strip(override)) # {})
          => dicts[root].src = FirstIn(HasEmail(Strip(override)))
    /\ (override = NoneVal /\ HasEmail(Strip(settings.topLevelUserEmail)) # {})
          => dicts[root].src = FirstIn(HasEmail(Strip(settings.topLevelUserEmail)))
    /\ branch = "id" => /\ HasEmail(EffectiveEmail) = {}
                        /\ dicts[root].id = Strip(settings.topLevelUserId)
    /\ (HasEmail(EffectiveEmail) = {} /\ NamesEmployee(Strip(settings.topLevelUserId)))
          => branch = "id"

\* override, configured email and configured id name three different
\* employees of the list, and the override's is the root
C4_Witness ==
  /\ Built
  /\ override # NoneVal /\ HasEmail(override) # {}
  /\ HasEmail(settings.topLevelUserEmail) # {}
  /\ NamesEmployee(settings.topLevelUserId)
  /\ Cardinality({override, settings.topLevelUserEmail, settings.topLevelUserId}) = 3
  /\ employees[dicts[root].src].email = override

\* the employees (positions) that are root candidates of the last call
CandidatePositions == {dicts[candidates[k]].src : k \in 1..Len(candidates)}
AutoBranches == {"keyword", "first_candidate", "most_reports", "first_employee"}
ManagerInList(i) == \E j \in 1..Len(employees) : employees[j].id = employees[i].managerId

\* C5 (as claimed): in auto-detect the candidates are exactly the employees
\* whose managerId is null/empty or matches no id of the list.
C5_CandidatesAreUnresolved ==
  (Built /\ branch \in AutoBranches) =>
    CandidatePositions =
      {i \in 1..Len(employees) :
         employees[i].managerId \in {NoneVal, EmptyStr} \/ ~ManagerInList(i)}

\* C5 (amended): in auto-detect the candidates are exactly the employees
\* whose managerId is null/empty; an employee whose managerId matches no id
\* of the list is not a candidate.
C5_CandidatesHaveNoManagerId ==
  (Built /\ branch \in AutoBranches) =>
    /\ CandidatePositions =
         {i \in 1..Len(employees) : employees[i].managerId \in {NoneVal, EmptyStr}}
    /\ Len(candidates) = Cardinality(CandidatePositions)

\* auto-detect ran on a list with a null-manager employee and an employee
\* whose manager is not in the list
C5_Witness ==
  /\ Built /\ branch \in AutoBranches
  /\ candidates # <<>>
  /\ \E i \in 1..Len(employees) :
       employees[i].managerId # NoneVal /\ ~ManagerInList(i)

\* deep equality of the tree under dict a of heap (L1, D1) and the tree
\* under dict b of heap (L2, D2): same fields, children equal pairwise in
\* order (a pair met again on the way down is not compared a second time)
RECURSIVE TreeEq(_, _, _, _, _, _, _)
TreeEq(L1, D1, a, L2, D2, b, path) ==
  \/ <<a, b>> \in path
  \/ /\ D1[a].id = D2[b].id
     /\ D1[a].managerId = D2[b].managerId
     /\ D1[a].src = D2[b].src
     /\ Len(L1[D1[a].children]) = Len(L2[D2[b].children])
     /\ \A k \in 1..Len(L1[D1[a].children]) :
          TreeEq(L1, D1, L1[D1[a].children][k], L2, D2, L2[D2[b].children][k],
                 path \cup {<<a, b>>})

\* build_org_hierarchy on a fresh deep copy of the list as it was fetched,
\* with the configuration of the last call
HasKey == employees # <<>> /\ employees[1].children # 0
FetchedLists == IF HasKey THEN FreshLists ELSE <<>>
OnFreshCopy == build_org_hierarchy(employees, FetchedLists, <<>>, settings, override)

\* C6 (as claimed): after any sequence of earlier calls on the same list
\* object, a call returns a tree deep-equal to the one returned for a fresh
\* deep copy of the original list with the same configuration.
C6_SameAsOnFreshCopy ==
  Built => TreeEq(lists, dicts, root, OnFreshCopy.L, OnFreshCopy.D, OnFreshCopy.root, {})

\* C7 (as claimed): after a call every record of the input list, the
\* content of the children list it carries included, is as it was before.
C7_InputUnchanged ==
  calls > 0 =>
    \A i \in 1..Len(employees) :
      employees[i].children # 0 => lists[employees[i].children] = <<>>

\* C8 (as claimed): two consecutive calls on the same list object with the
\* same root-selection configuration return deep-equal trees (both trees
\* compared after the second call).
C8_SameInputSameTree ==
  (Built /\ prev.valid /\ prev.root # 0 /\ prev.override = override) =>
    TreeEq(lists, dicts, prev.root, lists, dicts, root, {})

\* ids of the dicts reachable from the returned root, the root included
ReachableIds == IF root = 0 THEN {} ELSE {dicts[d].id : d \in Descendants(root) \cup {root}}
RecordsOf(i) == {k \in 1..Len(missing) : missing[k].id = employees[i].id}
\* the employee's email equals, case and surrounding whitespace ignored, the
\* effective top-user email: the override when one is passed, else the
\* configured email
EmailExempt(i) ==
  LET eff == IF override # NoneVal THEN override ELSE settings.topLevelUserEmail
  IN /\ Lower(Strip(eff)) # EmptyStr
     /\ Lower(Strip(employees[i].email)) = Lower(Strip(eff))

\* C9 (as claimed): collect, given the list that produced the hierarchy,
\* emits exactly one record for every employee not reachable from the root
\* and none for a reachable one.
C9_OneRecordPerUnreachable ==
  (collected /\ UniqueIds) =>
    \A i \in 1..Len(employees) :
      Cardinality(RecordsOf(i)) = IF employees[i].id \in ReachableIds THEN 0 ELSE 1

\* C9 (amended): collect emits exactly one record for every employee that
\* is not reachable from the root and whose email does not equal,
\* case-insensitively, the effective top-user email, and no record for any
\* other employee.
C9_OneRecordPerUnreachableNotExempt ==
  (collected /\ UniqueIds) =>
    \A i \in 1..Len(employees) :
      Cardinality(RecordsOf(i)) =
        IF employees[i].id \in ReachableIds \/ EmailExempt(i) THEN 0 ELSE 1

\* the report has a record for a detached employee and none for an
\* unreachable employee exempted by email
C9_Witness ==
  /\ collected /\ root # 0
  /\ \E k \in 1..Len(missing) : missing[k].missingReason = "detached"
  /\ \E i \in 1..Len(employees) :
       employees[i].id \notin ReachableIds /\ EmailExempt(i) /\ RecordsOf(i) = {}

\* employees (positions) whose manager chain leads back to themselves
RECURSIVE ManagersOf(_, _)
ManagersOf(frontier, seen) ==
  LET next == {j \in 1..Len(employees) :
                 \E i \in frontier : employees[i].managerId = employees[j].id} \ seen
  IN IF next = {} THEN seen ELSE ManagersOf(next, seen \cup next)
OnCycle == {i \in 1..Len(employees) : i \in ManagersOf({i}, {})}
NoNullManager == \A i \in 1..Len(employees) : employees[i].managerId # NoneVal
NothingConfigured ==
  /\ override = NoneVal
  /\ settings.topLevelUserEmail = EmptyStr
  /\ settings.topLevelUserId = EmptyStr
ReportedDetached(i) ==
  \E k \in RecordsOf(i) :
    missing[k].reason = IF employees[i].filterReasons # <<>> THEN "filtered" ELSE "detached"

\* C10 (as claimed): when no employee has a null manager and some employee
\* is on a manager cycle (no root configured), the root is chosen by the
\* most-reports or first-employee branch and every employee of a cycle is
\* in the report with reason detached (filtered when it has filterReasons).
C10_CycleMembersReported ==
  (collected /\ NothingConfigured /\ NoNullManager /\ OnCycle # {}) =>
    /\ branch \in {"most_reports", "first_employee"}
    /\ \A i \in OnCycle : ReportedDetached(i)

\* C10 (amended): under the same conditions the root is chosen by the
\* most-reports or first-employee branch, every employee of a cycle that is
\* not reachable from the root is in the report with reason detached
\* (filtered when it has filterReasons), and an employee of a cycle that is
\* reachable from the root (the root's own cycle) has no record.
C10_UnreachableCycleMembersReported ==
  (collected /\ NothingConfigured /\ NoNullManager /\ OnCycle # {}) =>
    /\ branch \in {"most_reports", "first_employee"}
    /\ \A i \in OnCycle :
         IF employees[i].id \in ReachableIds THEN RecordsOf(i) = {}
         ELSE ReportedDetached(i) /\ Cardinality(RecordsOf(i)) = 1

\* every employee is on a cycle, and the report has a filtered and a
\* detached employee of the cycles the root is not on
C10_Witness ==
  /\ collected /\ NothingConfigured /\ NoNullManager
  /\ OnCycle = 1..Len(employees)
  /\ \E k \in 1..Len(missing) : missing[k].reason = "filtered"
  /\ \E k \in 1..Len(missing) : missing[k].reason = "detached"

\* the list is well-formed: unique ids, exactly one employee with a null
\* manager, every other managerId names an employee, no manager cycle
NullManagers == {i \in 1..Len(employees) : employees[i].managerId = NoneVal}
WellFormed ==
  /\ UniqueIds
  /\ Cardinality(NullManagers) = 1
  /\ \A i \in 1..Len(employees) : i \notin NullManagers => ManagerInList(i)
  /\ OnCycle = {}
CopyOf(id) == Ref(employees, Len(dicts) - Len(employees), id)

\* C11: for a well-formed list with no root configured and no override, the
\* root is the null-manager employee, every other employee is in the
\* children list of the node whose id is its managerId, every employee is
\* reachable from the root, and the missing-manager report is empty.
C11_WellFormedTree ==
  (Built /\ WellFormed /\ NothingConfigured) =>
    /\ dicts[root].src \in NullManagers
    /\ \A i \in 1..Len(employees) :
         i \notin NullManagers =>
           CopyOf(employees[i].id) \in ChildrenOf(CopyOf(employees[i].managerId))
    /\ ReachableIds = {employees[i].id : i \in 1..Len(employees)}
    /\ collected => missing = <<>>

\* the report was collected for a well-formed list of three levels
C11_Witness ==
  /\ collected /\ WellFormed /\ NothingConfigured
  /\ Len(employees) = 3
  /\ \E i \in 1..Len(employees) :
       /\ i \notin NullManagers
       /\ employees[i].managerId # dicts[root].id
       /\ CopyOf(employees[i].id) \in Descendants(root)

\* the employee is the root or exempt by its email
IsRoot(i) == root # 0 /\ employees[i].id = dicts[root].id
NotExempt == {i \in 1..Len(employees) : ~IsRoot(i) /\ ~EmailExempt(i)}
\* the classification by the ordered rule ("": no reason)
ExpectedReason(i) ==
  IF employees[i].managerId \in {NoneVal, EmptyStr} THEN "no_manager"
  ELSE IF ~ManagerInList(i) THEN "manager_not_found"
  ELSE IF employees[i].id \notin ReachableIds THEN "detached"
  ELSE ""

\* C12: for every non-exempt employee the missingReason is no_manager when
\* its managerId is null or empty, else manager_not_found when its
\* managerId is the id of no employee of the list, else detached when its
\* id was not visited in the traversal from the root; otherwise the
\* employee has no record.
C12_ReasonByOrderedRule ==
  (collected /\ UniqueIds) =>
    \A i \in NotExempt :
      IF ExpectedReason(i) = "" THEN RecordsOf(i) = {}
      ELSE /\ Cardinality(RecordsOf(i)) = 1
           /\ \A k \in RecordsOf(i) : missing[k].missingReason = ExpectedReason(i)

\* the report has an unreachable employee whose manager is not in the list
\* and an employee detached from the root
C12_Witness ==
  /\ collected /\ root # 0
  /\ \E k \in 1..Len(missing) : missing[k].missingReason = "manager_not_found"
  /\ \E k \in 1..Len(missing) : missing[k].missingReason = "detached"

\* the employee (position) a record of the report was made from
SourceOf(k) == CHOOSE i \in 1..Len(employees) : employees[i].id = missing[k].id
StructuralReasons == {"no_manager", "manager_not_found", "detached"}
Filtered(i) == employees[i].filterReasons # <<>>

\* C13: in every record reason is 'filtered' exactly when the source
\* employee has non-empty filterReasons and equals missingReason otherwise;
\* missingReason is always the structural classification; an employee with
\* filterReasons and no structural reason has no record.
C13_FilteredOverridesReasonOnly ==
  (collected /\ UniqueIds) =>
    /\ \A k \in 1..Len(missing) :
         /\ missing[k].reason = "filtered" <=> Filtered(SourceOf(k))
         /\ ~Filtered(SourceOf(k)) => missing[k].reason = missing[k].missingReason
         /\ missing[k].missingReason \in StructuralReasons
         /\ missing[k].missingReason = ExpectedReason(SourceOf(k))
         /\ missing[k].filterReasons = employees[SourceOf(k)].filterReasons
    /\ \A i \in 1..Len(employees) :
         (Filtered(i) /\ ExpectedReason(i) = "") => RecordsOf(i) = {}

\* a filtered employee that is detached has a record with reason filtered
\* and missingReason detached, and a filtered employee placed under the
\* root has no record
C13_Witness ==
  /\ collected /\ root # 0
  /\ \E k \in 1..Len(missing) :
       missing[k].reason = "filtered" /\ missing[k].missingReason = "detached"
  /\ \E i \in 1..Len(employees) :
       Filtered(i) /\ ~IsRoot(i) /\ ExpectedReason(i) = "" /\ RecordsOf(i) = {}

\* C14: collect exempts an employee exactly when its id is the root's id or
\* its email equals, case-insensitively (surrounding whitespace aside), the
\* effective top-user email: the override whenever one is passed, so that
\* an empty override exempts no one by email whatever the settings say, and
\* the configured topLevelUserEmail only when no override is passed.  An
\* employee is exempted when it has no record although the ordered rule
\* gives it a reason.
C14_ExemptExactly ==
  (collected /\ UniqueIds) =>
    /\ \A i \in 1..Len(employees) :
         ExpectedReason(i) # "" =>
           (RecordsOf(i) = {} <=> (IsRoot(i) \/ EmailExempt(i)))
    /\ override = EmptyStr =>
         \A i \in 1..Len(employees) :
           (ExpectedReason(i) # "" /\ ~IsRoot(i)) => RecordsOf(i) # {}

\* an empty override was passed while the settings configure the email of
\* an employee that is not the root, and that employee is in the report
C14_Witness ==
  /\ collected /\ root # 0
  /\ override = EmptyStr
  /\ \E i \in 1..Len(employees) :
       /\ Lower(Strip(settings.topLevelUserEmail)) = Lower(Strip(employees[i].email))
       /\ ~IsRoot(i)
       /\ RecordsOf(i) # {}

\* titles that contain one of the six keywords, letter case aside
TitleHasKeyword(t) == t \in {"CEO", "Head of Sales"}
KeywordCandidates ==
  {i \in CandidatePositions : TitleHasKeyword(employees[i].title)}

\* C15: in auto-detect with a non-empty candidate set the root is the first
\* candidate in input-list order whose title contains, case-insensitively,
\* one of the six keywords, and the first candidate in input-list order
\* when no candidate title matches.
C15_FirstKeywordCandidate ==
  (Built /\ branch \in AutoBranches /\ candidates # <<>>) =>
    /\ \A k, l \in 1..Len(candidates) :
         k < l => dicts[candidates[k]].src < dicts[candidates[l]].src
    /\ dicts[root].src = IF KeywordCandidates # {} THEN FirstIn(KeywordCandidates)
                         ELSE FirstIn(CandidatePositions)

\* the root is a candidate with a keyword title that has a candidate
\* without keyword before it and a candidate with a keyword after it
C15_Witness ==
  /\ Built /\ branch = "keyword"
  /\ \E i \in CandidatePositions : i < dicts[root].src
  /\ \E i \in KeywordCandidates : i > dicts[root].src
  /\ employees[dicts[root].src].title = "Head of Sales"

\* the employees that name employee i as their manager, and the greatest
\* number of them any employee has
Reports(i) == {j \in 1..Len(employees) : employees[j].managerId = employees[i].id}
MaxReports ==
  CHOOSE m \in 0..Len(employees) :
    /\ \A i \in 1..Len(employees) : Cardinality(Reports(i)) <= m
    /\ m > 0 => \E i \in 1..Len(employees) : Cardinality(Reports(i)) = m

\* C16: in auto-detect with an empty candidate set the root is the employee
\* with the greatest number of direct children, the first such employee in
\* index iteration order on a tie; when no employee has a child the root is
\* the first employee of the input list.
C16_MostReportsThenFirst ==
  (Built /\ UniqueIds /\ branch \in AutoBranches /\ candidates = <<>>) =>
    /\ \A i \in 1..Len(employees) :
         Cardinality(ChildrenOf(CopyOf(employees[i].id))) = Cardinality(Reports(i))
    /\ dicts[root].src =
         IF MaxReports > 0
         THEN FirstIn({i \in 1..Len(employees) : Cardinality(Reports(i)) = MaxReports})
         ELSE 1

\* no candidates, two employees tie for the most reports, and the root is
\* the earlier of them, which is not the first employee
C16_Witness ==
  /\ Built /\ branch = "most_reports" /\ candidates = <<>>
  /\ dicts[root].src > 1
  /\ \E j \in 1..Len(employees) :
       /\ j > dicts[root].src
       /\ Cardinality(Reports(j)) = Cardinality(Reports(dicts[root].src))

\* C18: build_org_hierarchy returns None if and only if the employee list
\* is empty; for every non-empty list and every configuration it returns,
\* without raising, a node whose id is the id of an input employee.
C18_NoneIffEmpty ==
  calls > 0 =>
    /\ ~raised
    /\ root = 0 <=> employees = <<>>
    /\ root # 0 => \E i \in 1..Len(employees) : employees[i].id = dicts[root].id

\* no root configured, no candidate and no employee with a report: the
\* first employee of the list was returned
C18_Witness ==
  /\ Built /\ branch = "first_employee"
  /\ Len(employees) > 1
  /\ dicts[root].id = employees[1].id

\* the records (positions) that lack an id, and the nodes of the returned
\* tree
LacksId == {i \in 1..Len(employees) : employees[i].id \in {Absent, NoneVal}}
TreeNodes == IF root = 0 THEN {} ELSE Descendants(root) \cup {root}

\* C17 (as claimed): build_org_hierarchy does not raise when an input
\* record lacks an id; the record is left out of the tree, and a root is
\* returned from the remaining records when there are any.
C17_MissingIdLeftOut ==
  (calls > 0 /\ LacksId # {}) =>
    /\ ~raised
    /\ \A d \in TreeNodes : dicts[d].src \notin LacksId
    /\ LacksId # 1..Len(employees) => root # 0

\* the sort key of a record: department and name, a missing value as ''
SortKey(r) == <<IF r.department = -1 THEN 0 ELSE r.department,
                IF r.name = -1 THEN 0 ELSE r.name>>
KeyBefore(a, b) == a[1] < b[1] \/ (a[1] = b[1] /\ a[2] < b[2])

\* C19: the list returned by collect is sorted ascending by the pair
\* (department, name) compared as raw strings, a missing value comparing as
\* the empty string, and records with the same pair keep the relative
\* order their employees have in the input list.
C19_SortedStable ==
  (collected /\ UniqueIds) =>
    \A k, l \in 1..Len(missing) :
      k < l =>
        \/ KeyBefore(SortKey(missing[k]), SortKey(missing[l]))
        \/ /\ SortKey(missing[k]) = SortKey(missing[l])
           /\ SourceOf(k) < SourceOf(l)

\* three records, reordered by the sort, two of them with equal keys of
\* which one has no department and the other the department ''
C19_Witness ==
  /\ collected /\ Len(missing) = 3
  /\ \E k, l \in 1..Len(missing) : k < l /\ SourceOf(k) > SourceOf(l)
  /\ \E k, l \in 1..Len(missing) :
       /\ k < l
       /\ SortKey(missing[k]) = SortKey(missing[l])
       /\ missing[k].department # missing[l].department

\* the places <<node, position>> of the children lists of the index at
\* which the dict d stands
PlacesOf(d) ==
  {p \in UNION {{<<m, k>> : k \in 1..Len(lists[dicts[m].children])} : m \in Index} :
     lists[dicts[p[1]].children][p[2]] = d}
TwiceInInput(i) == \E j \in 1..Len(employees) : j # i /\ employees[j] = employees[i]

\* C20: in the index built by build_org_hierarchy no employee copy occurs
\* more than once across all children lists (in at most one node's list,
\* and at most once in it), also when the same record occurs twice in the
\* input.
C20_CopyPlacedAtMostOnce ==
  Built => \A d \in Index : Cardinality(PlacesOf(d)) <= 1

\* a record that occurs twice in the input has its copy in the children
\* list of its manager
C20_Witness ==
  /\ Built
  /\ \E i \in 1..Len(employees) :
       /\ TwiceInInput(i)
       /\ PlacesOf(CopyOf(employees[i].id)) # {}
       /\ employees[i].managerId # employees[i].id


\* a thread is between mark_data_update_running and the end of
\* mark_data_update_finished
InRefresh(t) ==
  \/ thr[t].pc \in {"body", "write_data", "write_missing", "finally", "finish"}
  \/ thr[t].pc \in {"load", "reset"} /\ thr[t].ret = "finish"

\* C21 (as claimed): under every interleaving of update_employee_data
\* invocations at most one invocation at a time is between
\* mark_data_update_running and mark_data_update_finished, so DATA_FILE and
\* MISSING_MANAGER_FILE are never written by two refreshes at once.
C21_OneRefreshAtATime ==
  Cardinality({t \in Threads : InRefresh(t)}) <= 1


\* the stored status says running and is not stale: the process has
\* started up and startedAt is a valid time less than 2 hours ago
RunningNotStale ==
  /\ status.state = "running"
  /\ startup
  /\ status.startedAt \notin {NoTime, BadTime}
  /\ now - status.startedAt < StaleAfter
NoTraceOf(t) ==
  /\ ~thr'[t].token /\ thr'[t].wrote = {} /\ thr'[t].did = {}
  /\ thr'[t].final = NoFinal
  /\ status' = status /\ files' = files

\* C22: an update_employee_data invocation that finds the stored status
\* running and not stale returns without requesting a token or fetching,
\* writes no cache file, leaves the status as it is and does not mark the
\* update finished.
C22_SkipLeavesNoTrace ==
  [][\A t \in Threads :
       /\ (thr[t].pc = "load" /\ thr[t].ret = "check" /\ RunningNotStale
           /\ thr'[t] # thr[t])
            => (thr'[t].pc = "check" /\ thr'[t].snap = status /\ NoTraceOf(t))
       /\ (thr[t].pc = "check" /\ thr[t].snap.state = "running" /\ thr'[t] # thr[t])
            => (thr'[t].pc = "idle" /\ thr'[t].path = "skipped" /\ NoTraceOf(t))]_vars

\* a request was skipped while the refresh of another thread is running
C22_Witness ==
  \E t, u \in Threads :
    /\ thr[t].path = "skipped" /\ thr[t].pc = "idle"
    /\ InRefresh(u) /\ status.state = "running" /\ status.source = thr[u].source


\* the ways a refresh ends without a hierarchy: lines 298-306, 310-314, an
\* exception of the fetch or the build, and the else branch of line 325
NoTreePaths == {"unwritable", "no_token", "exception", "no_employees"}

\* C25: a refresh that obtains no employees or fails before a hierarchy is
\* built leaves the cached hierarchy file and the missing-manager report
\* file as they were.
C25_NoTreeKeepsFiles ==
  [][\A t \in Threads :
       (thr'[t] # thr[t] /\ thr'[t].path \in NoTreePaths)
         => (files' = files /\ thr'[t].wrote = {})]_vars

\* a refresh without a hierarchy has finished and the tree written by an
\* earlier refresh is still in place
C25_Witness ==
  \E t, u \in Threads :
    /\ t # u
    /\ thr[t].path \in {"no_employees", "exception"} /\ thr[t].final.state = "idle"
    /\ files.data = [by |-> u, inv |-> 1, whole |-> TRUE]
    /\ files.missing.by = u


\* C28: every invocation that marks the status running eventually writes a
\* final status with state idle, whichever way the body is left, and the
\* final status has success = true only if the body ran to its end.
C28_RunningEndsIdle ==
  /\ [](\A t \in Threads :
          thr[t].final.success = "true"
            => (thr[t].path \in {"hierarchy", "no_employees"} /\ thr[t].success))
  /\ \A t \in Threads :
       ("running" \in thr[t].did /\ thr[t].pc = "body")
         ~> (thr[t].pc = "idle" /\ thr[t].final.state = "idle")

\* an invocation that marked running was left by an early return or an
\* exception and wrote its final status, a failure
C28_Witness ==
  \E t \in Threads :
    /\ thr[t].pc = "idle" /\ thr[t].did = {"running", "final"}
    /\ thr[t].path \in {"unwritable", "no_token", "exception", "dump_error"}
    /\ thr[t].final = [state |-> "idle", success |-> "false"]
    /\ status.state = "idle" /\ status.success = "false"


\* C29 (as claimed): once the stored status has a lastSuccessAt, no status
\* operation, in any order or interleaving, drops it or replaces it by an
\* earlier time.
C29_LastSuccessKept ==
  [][status.lastSuccessAt # NoTime => status'.lastSuccessAt >= status.lastSuccessAt]_vars


\* the three cases of a reset: the process has not completed its startup,
\* startedAt is missing or unparsable, startedAt is more than 2 hours ago
MustReset ==
  /\ status.state = "running"
  /\ \/ ~startup
     \/ status.startedAt \in {NoTime, BadTime}
     \/ now - status.startedAt > StaleAfter

\* C30: load_data_update_status resets a stored running status to idle with
\* success = false exactly on the first load before mark_startup_complete,
\* or when startedAt is missing or unparsable, or when startedAt is more
\* than 2 hours in the past; in every other case the status is returned
\* unchanged and the stored status is not rewritten.
C30_ResetExactlyWhenStale ==
  [][\A t \in Threads :
       /\ (thr[t].pc = "load" /\ thr'[t] # thr[t])
            => IF MustReset
               THEN /\ thr'[t].pc = "reset"
                    /\ thr'[t].stale.state = "idle" /\ thr'[t].stale.success = "false"
                    /\ thr'[t].snap = thr'[t].stale
               ELSE /\ thr'[t].pc = thr[t].ret
                    /\ thr'[t].snap = status /\ status' = status
       /\ (thr[t].pc = "reset" /\ thr'[t] # thr[t])
            => (status' = thr[t].stale /\ thr'[t].pc = thr[t].ret)]_vars

\* after startup a running status without a usable startedAt was reset
C30_Witness ==
  /\ startup /\ thr[1].pc = "polled"
  /\ status.state = "idle" /\ status.success = "false" /\ status.error = "invalid"
  /\ thr[1].snap = status


\* employees (positions) whose managerId is their own id
SelfManaged == {i \in 1..Len(employees) : employees[i].managerId = employees[i].id}
\* the copy of employee i stands exactly once in the children lists, in its own
OnceInOwnList(i) ==
  LET c == CopyOf(employees[i].id)
  IN Cardinality(PlacesOf(c)) = 1 /\ \A p \in PlacesOf(c) : p[1] = c
\* the records of employee i do not say that its manager is missing
ManagerResolved(i) ==
  /\ i \notin CandidatePositions
  /\ \A k \in RecordsOf(i) : missing[k].missingReason \notin {"no_manager", "manager_not_found"}

\* C26 (as claimed): an employee whose managerId equals its own id is
\* treated as having a resolvable manager, is appended exactly once to its
\* own children list, and is never emitted by
\* collect_missing_manager_records.
C26_SelfManagedNeverReported ==
  Built => \A i \in SelfManaged :
    /\ ManagerResolved(i)
    /\ OnceInOwnList(i)
    /\ collected => RecordsOf(i) = {}

\* C26 (amended): an employee whose managerId equals its own id is treated
\* as having a resolvable manager; unless it is the configured root, whose
\* copy is in no children list, its copy is exactly once in its own
\* children list; collect_missing_manager_records emits it exactly once,
\* with missingReason detached, unless it is the hierarchy root or its
\* email is the effective top-user email.
C26_SelfManagedDetached ==
  Built => \A i \in SelfManaged :
    /\ ManagerResolved(i)
    /\ IF IsRoot(i) /\ branch \in {"email", "id"}
       THEN PlacesOf(CopyOf(employees[i].id)) = {}
       ELSE OnceInOwnList(i)
    /\ collected =>
         IF IsRoot(i) \/ EmailExempt(i) THEN RecordsOf(i) = {}
         ELSE /\ Cardinality(RecordsOf(i)) = 1
              /\ \A k \in RecordsOf(i) : missing[k].missingReason = "detached"

\* the report of a built hierarchy has a self-managed employee that is its
\* own child and detached, next to a self-managed root
C26_Witness ==
  /\ collected /\ Built
  /\ \E i, j \in SelfManaged :
       /\ ~IsRoot(i) /\ OnceInOwnList(i)
       /\ \E k \in RecordsOf(i) : missing[k].missingReason = "detached"
       /\ IsRoot(j) /\ RecordsOf(j) = {}


\* C27: the traversal of collect_missing_manager_records terminates for
\* every finite hierarchy graph, also when a node is reachable from itself
\* or has two parents, and adds each node id to visited at most once.
C27_TraversalTerminates ==
  /\ [](/\ \A a, b \in 1..Len(trace) : trace[a] = trace[b] => a = b
        /\ marks = {trace[a] : a \in 1..Len(trace)})
  /\ <>(stack = <<>>)

\* the traversal is over without an error on a graph with a dict that is
\* its own child and a dict that two dicts have as child; every dict was
\* visited
C27_Witness ==
  /\ stack = <<>> /\ ~raised
  /\ Len(trace) = MaxNodes
  /\ \E d \in 1..Len(dicts) : \E k \in 1..Len(KidsOf(d)) : KidsOf(d)[k] = d
  /\ \E c, d, e \in 1..Len(dicts) :
       /\ d # e /\ c # d /\ c # e
       /\ \E k \in 1..Len(KidsOf(d)) : KidsOf(d)[k] = c
       /\ \E k \in 1..Len(KidsOf(e)) : KidsOf(e)[k] = c
  /\ marks = Visited(lists, dicts, root)


\* thread i of process p can still invoke the callback: it is before the
\* initial update or past the test of line 127 with a run due, or it will
\* pass the test when it gets there
CanInvoke(p, i) ==
  \/ proc[p].loops[i].pc \in {"setup", "due"}
  \/ proc[p].loops[i].pc \in {"test", "sleep"} /\ proc[p].running
LoopProcs == {p \in Procs : \E i \in 1..Len(proc[p].loops) : CanInvoke(p, i)}

\* C23 (as claimed): at most one process at a time has a schedule loop
\* that can invoke the update callback, and a process has such a loop only
\* while it holds the flock on .scheduler.lock, also after stop_scheduler
\* or restart_scheduler released it.
C23_LoopOnlyUnderLock ==
  /\ Cardinality(LoopProcs) <= 1
  /\ \A p \in LoopProcs : flock = p

\* thread i of process p is executing loop iterations: it is in one, or at
\* the test or asleep with the flag set
Iterating(p, i) ==
  \/ proc[p].loops[i].pc \in {"due", "callback"}
  \/ proc[p].loops[i].pc \in {"test", "sleep"} /\ proc[p].running

\* C24 (as claimed): within one process at most one _schedule_loop thread
\* is executing loop iterations, and a thread stopped by stop_scheduler
\* never passes the loop test again after a later start.
C24_OneLoopThread ==
  /\ [](\A p \in Procs :
          Cardinality({i \in 1..Len(proc[p].loops) : Iterating(p, i)}) <= 1)
  /\ [][\A p \in Procs : \A i \in 1..Len(proc[p].loops) :
          ~(/\ proc[p].loops[i].stopped /\ proc[p].loops[i].pc = "test"
            /\ proc'[p].loops[i].pc \in {"due", "sleep"})]_vars

====
